---- MODULE Spec2Model ----
(***************************************************************************)
(* Model of src/mlops_unity_pipeline.py: the four-stage job executor       *)
(* (UnityMLOpsOrchestrator.execute_training_job) and the cron scheduler    *)
(* (TrainingScheduler.add_schedule / run_forever / _run_scheduled_jobs).   *)
(*                                                                         *)
(* Time is a discrete clock (one unit = one cron minute).  Paths, job ids  *)
(* and registry resources are tuples of their components, so that two of   *)
(* them are equal exactly when the formatted strings of the code are.      *)
(***************************************************************************)
EXTENDS Integers, Sequences, FiniteSets, TLC

\* ------------------------------------------------------------------ bounds
MaxTime == 4
MaxAdds == 3

\* ------------------------------------------------------------ input domains
ScheduleIds == {"nightly", "weekly"}

EveryTwo == "*/2 * * * *"
EveryThree == "*/3 * * * *"
EveryHour == "@every 1h"

CronExpressions == {EveryTwo, EveryThree, EveryHour}

AgentA == [asset_id |-> "a1", name |-> "SimpleAgent"]
AgentB == [asset_id |-> "a2", name |-> "NightAgent"]

\* a spec of another asset whose class has the name of AgentA's
AgentC == [asset_id |-> "a3", name |-> "SimpleAgent"]

RLTrainingConfig == [algorithm |-> "PPO"]

TrainingSchedule(id, expr, specs, en) ==
    [schedule_id |-> id, cron_expression |-> expr, asset_specs |-> specs,
     rl_config |-> RLTrainingConfig, enabled |-> en]

\* the schedules a caller registers: two ids, lists of one and of two asset
\* specs sharing an asset, enabled and disabled, accepted and rejected
\* expressions
ScheduleInputs ==
    {TrainingSchedule("nightly", EveryTwo, <<AgentA, AgentB>>, TRUE),
     TrainingSchedule("nightly", EveryHour, <<AgentA, AgentB>>, TRUE),
     TrainingSchedule("nightly", EveryTwo, <<AgentA, AgentB>>, FALSE),
     TrainingSchedule("weekly", EveryThree, <<AgentA>>, TRUE),
     TrainingSchedule("weekly", EveryTwo, <<AgentA>>, TRUE),
     TrainingSchedule("weekly", EveryHour, <<AgentA>>, FALSE)}

TrainingJob(id, spec, cfg) == [job_id |-> id, asset_spec |-> spec, rl_config |-> cfg]

\* None for optional paths, resources and error descriptions
None == <<>>

TrainingResult(id, st, model, resource, err) ==
    [job_id |-> id, status |-> st, trained_model_path |-> model,
     vertex_model_resource |-> resource, error |-> err]

\* a task that has not returned yet holds no result
NoResult == TrainingResult(None, "pending", None, None, None)

\* ------------------------------------------------------------- croniter
\* croniter(expr, start): five-field expressions parse; "@every 1h" is not
\* one of croniter's aliases and has two fields, so the constructor raises.
CronPeriod(expr) ==
    CASE expr = EveryTwo -> 2
      [] expr = EveryThree -> 3
      [] OTHER -> 0

CroniterAccepts(expr) == CronPeriod(expr) > 0

\* a get_next that returns start itself when start is a fire time
GetNextInclusive(expr, start) ==
    IF start % CronPeriod(expr) = 0
    THEN start
    ELSE ((start \div CronPeriod(expr)) + 1) * CronPeriod(expr)

\* croniter(expr, start).get_next(): the first fire time strictly after start
GetNext(expr, start) == ((start \div CronPeriod(expr)) + 1) * CronPeriod(expr)

\* ------------------------------------------------------------- the stages
Stages == <<"generate", "build", "train", "register">>

\* an exception object: its class and its message
Exception(class, message) == [class |-> class, message |-> message]

NoException == Exception("none", None)

\* exceptions a stage can raise: a failed write (OSError), a tool that exits
\* non-zero (RuntimeError), an unreadable registry file (JSONDecodeError)
StageErrors(stage) ==
    CASE stage = "generate" -> {Exception("OSError", <<"write_text", "generated_scripts">>)}
      [] stage = "build" -> {Exception("RuntimeError", <<"Unity build", "failed">>)}
      [] stage = "train" -> {Exception("RuntimeError", <<"ML-Agents training", "failed">>)}
      [] stage = "register" -> {Exception("JSONDecodeError", <<"vertex_registry.json">>)}
      [] OTHER -> {}

\* the classes that derive from Exception
ExceptionClasses == {"OSError", "RuntimeError", "JSONDecodeError"}

\* a handler written as except RuntimeError
CaughtRuntimeErrorOnly(exc) == exc.class = "RuntimeError"

\* except Exception
CaughtByExecute(exc) == exc.class \in ExceptionClasses

\* str(exc)
ErrorText(exc) == exc.message

GenerateUnityCode(spec) == <<"generated_scripts", spec.name, ".cs">>

BuildUnityEnvironment(spec, script_path) == <<"builds", spec.asset_id, spec.name>>

TrainWithMlagents(spec, build_path) ==
    <<"training_runs", spec.asset_id, spec.asset_id, ".onnx">>

RegisterModelInVertexAi(job, model_path, t) ==
    <<"local://vertex-registry/", "unity", job.asset_spec.name, t>>

\* a workspace with one directory per job
StageWritesPerJob(job, stage) ==
    {<<"jobs", job.job_id, stage, job.asset_spec.asset_id, job.asset_spec.name>>}

\* the files under the workspace a stage writes for a job: the generated
\* script, the build output handed to Unity, the trainer config and the
\* model of the training run, the registry file
StageWrites(job, stage) ==
    CASE stage = "generate" ->
           {<<"generated_scripts", job.asset_spec.name, ".cs">>}
      [] stage = "build" ->
           {<<"builds", job.asset_spec.asset_id, job.asset_spec.name>>}
      [] stage = "train" ->
           {<<"training_runs", job.asset_spec.asset_id, "trainer_config.yaml">>,
            <<"training_runs", job.asset_spec.asset_id, job.asset_spec.asset_id, ".onnx">>}
      [] stage = "register" ->
           {<<"vertex_registry.json">>}

\* a write of the new record alone, without the records read
RegistryWriteAlone(existing) == 1

\* existing = json.loads(read_text()) (or [] when there is no file);
\* existing.append(metadata); write_text(json.dumps(existing)).  The file is
\* modelled by the number of records it holds.  There is no await between
\* the read and the write, so no other coroutine runs in between: the
\* register stage reads and writes in one step.
RegistryWrite(existing) == existing + 1

\* train and build awaited in the wrong order
StageAfterSwapped(stage) ==
    CASE stage = "generate" -> "train"
      [] stage = "train" -> "build"
      [] stage = "build" -> "register"
      [] stage = "register" -> "done"

\* the statement that follows a stage of execute_training_job
StageAfter(stage) ==
    CASE stage = "generate" -> "build"
      [] stage = "build" -> "train"
      [] stage = "train" -> "register"
      [] stage = "register" -> "done"

VARIABLES
    clock,       \* datetime.now(UTC)
    schedules,   \* TrainingScheduler.schedules, a dict in insertion order
    next_run,    \* TrainingScheduler._next_run
    pc,          \* where run_forever is
    now,         \* run_forever's local now
    items,       \* list(self.schedules.items()) of the tick in progress
    idx,         \* position of the for loop in items
    tasks,       \* the coroutines handed to asyncio.gather
    error,       \* the exception that left run_forever, or None
    adds,        \* number of add_schedule calls so far
    last_add,    \* the last add_schedule call and whether it raised
    added_at,    \* per schedule id: clock of its last add_schedule call, or -1
    last_run,    \* per schedule id: now of the tick it last fired in, or -1
    dispatched,  \* per schedule id: jobs dispatched in the tick in progress
    at_start,    \* next_run and last_run as they were when the tick began
    failures,    \* failed results gathered so far in the tick in progress
    returned,    \* the job results run_forever holds of the tick in progress
    job_ids,     \* the job ids _run_scheduled_jobs built in the tick in progress
    registry     \* the number of records in the file vertex_registry.json

vars == <<clock, schedules, next_run, pc, now, items, idx, tasks, error,
          adds, last_add, added_at, last_run, dispatched, at_start, failures,
                   returned, job_ids, registry>>

Never == -1

\* ------------------------------------------------------- TrainingScheduler
\* self.schedules[schedule.schedule_id] = schedule: a dict keeps the position
\* of a key it already holds and appends a new one
DictSet(d, schedule) ==
    IF \E i \in 1..Len(d) : d[i].schedule_id = schedule.schedule_id
    THEN [i \in 1..Len(d) |->
             IF d[i].schedule_id = schedule.schedule_id THEN schedule ELSE d[i]]
    ELSE Append(d, schedule)

\* an assignment that replaces the whole dict
NextRunSetAlone(m, id, value) == [x \in {id} |-> value]

\* self._next_run[schedule_id] = value
NextRunSet(m, id, value) ==
    [x \in DOMAIN m \cup {id} |-> IF x = id THEN value ELSE m[x]]

\* now >= due
IsDue(n, due) == n >= due

\* a loop without the enabled test
SkippedNever(schedule) == FALSE

\* if not schedule.enabled: continue
Skipped(schedule) == ~schedule.enabled

NewTask(job) ==
    [job |-> job, pc |-> "generate", script_path |-> None, build_path |-> None,
     model_path |-> None, vertex_resource |-> None, result |-> NoResult,
     exc |-> NoException]

\* a job id built from the asset id and the time alone
JobIdOfAsset(schedule, i, t) == <<schedule.asset_specs[i].asset_id, t>>

\* f"{schedule.schedule_id}-{idx}-{int(datetime.now(UTC).timestamp())}"
JobId(schedule, i, t) == <<schedule.schedule_id, ToString(i), t>>

\* the coroutines _run_scheduled_jobs builds, one per asset spec, numbered
\* from 1 by enumerate
ScheduledJobs(schedule, t) ==
    [i \in 1..Len(schedule.asset_specs) |->
        NewTask(TrainingJob(JobId(schedule, i, t),
                            schedule.asset_specs[i], schedule.rl_config))]

\* _run_scheduled_jobs ends with "await asyncio.gather(*tasks)" and has no
\* return statement: the list gather evaluates to is dropped and the caller
\* gets None
RunScheduledJobs(gathered) == None

Init ==
    /\ clock = 0
    /\ schedules = <<>>
    /\ next_run = <<>>
    /\ pc = "idle"
    /\ now = 0
    /\ items = <<>>
    /\ idx = 1
    /\ tasks = <<>>
    /\ error = "none"
    /\ adds = 0
    /\ last_add = [schedule_id |-> "none", cron_expression |-> "none", raised |-> FALSE]
    /\ added_at = [id \in ScheduleIds |-> Never]
    /\ last_run = [id \in ScheduleIds |-> Never]
    /\ dispatched = [id \in ScheduleIds |-> 0]
    /\ at_start = [next_run |-> <<>>, last_run |-> [id \in ScheduleIds |-> Never]]
    /\ failures = 0
    /\ returned = <<>>
    /\ job_ids = <<>>
    /\ registry = 0

\* time passes
AdvanceClock ==
    /\ clock < MaxTime
    /\ clock' = clock + 1
    /\ UNCHANGED <<schedules, next_run, pc, now, items, idx, tasks, error,
                   adds, last_add, added_at, last_run, dispatched, at_start, failures,
                   returned, job_ids, registry>>

\* add_schedule: the schedule is stored first, then croniter is built; when
\* croniter rejects the expression the call raises with the schedule stored
\* and _next_run left as it was.  Callers register schedules between ticks:
\* the collection is not mutated while a tick is in flight.  A schedule
\* object that is registered has not fired yet.
AddSchedule(schedule) ==
    /\ pc = "idle"
    /\ adds < MaxAdds
    /\ schedules' = DictSet(schedules, schedule)
    /\ next_run' = IF CroniterAccepts(schedule.cron_expression)
                   THEN NextRunSet(next_run, schedule.schedule_id,
                                   GetNext(schedule.cron_expression, clock))
                   ELSE next_run
    /\ last_add' = [schedule_id |-> schedule.schedule_id,
                    cron_expression |-> schedule.cron_expression,
                    raised |-> ~CroniterAccepts(schedule.cron_expression)]
    /\ adds' = adds + 1
    /\ added_at' = [added_at EXCEPT ![schedule.schedule_id] = clock]
    /\ last_run' = [last_run EXCEPT ![schedule.schedule_id] = Never]
    /\ UNCHANGED <<clock, pc, now, items, idx, tasks, error, dispatched, at_start,
                   failures,
                   returned, job_ids, registry>>

\* run_forever, top of the while loop: now and the snapshot of the schedules
TickStart ==
    /\ pc = "idle"
    /\ now' = clock
    /\ items' = schedules
    /\ idx' = 1
    /\ pc' = "loop"
    /\ tasks' = <<>>
    /\ dispatched' = [id \in ScheduleIds |-> 0]
    /\ at_start' = [next_run |-> next_run, last_run |-> last_run]
    /\ failures' = 0
    /\ returned' = <<>>
    /\ job_ids' = <<>>
    /\ UNCHANGED <<clock, schedules, next_run, error, adds, last_add, added_at,
                   last_run, registry>>

\* for loop: a disabled schedule is passed over
SkipDisabled ==
    /\ pc = "loop"
    /\ idx <= Len(items)
    /\ Skipped(items[idx])
    /\ idx' = idx + 1
    /\ UNCHANGED <<clock, schedules, next_run, pc, now, items, tasks, error,
                   adds, last_add, added_at, last_run, dispatched, at_start, failures,
                   returned, job_ids, registry>>

\* due = self._next_run[schedule_id] raises KeyError out of run_forever
DueLookupFails ==
    /\ pc = "loop"
    /\ idx <= Len(items)
    /\ ~Skipped(items[idx])
    /\ items[idx].schedule_id \notin DOMAIN next_run
    /\ pc' = "crashed"
    /\ error' = "KeyError"
    /\ UNCHANGED <<clock, schedules, next_run, now, items, idx, tasks,
                   adds, last_add, added_at, last_run, dispatched, at_start, failures,
                   returned, job_ids, registry>>

\* now < due: nothing to do for this schedule
NotDue ==
    /\ pc = "loop"
    /\ idx <= Len(items)
    /\ ~Skipped(items[idx])
    /\ items[idx].schedule_id \in DOMAIN next_run
    /\ ~IsDue(now, next_run[items[idx].schedule_id])
    /\ idx' = idx + 1
    /\ UNCHANGED <<clock, schedules, next_run, pc, now, items, tasks, error,
                   adds, last_add, added_at, last_run, dispatched, at_start, failures,
                   returned, job_ids, registry>>

\* a loop that starts the jobs of a due schedule as a background task and
\* goes on to the next schedule without awaiting them
DispatchDetached ==
    /\ pc = "loop"
    /\ idx <= Len(items)
    /\ ~Skipped(items[idx])
    /\ items[idx].schedule_id \in DOMAIN next_run
    /\ IsDue(now, next_run[items[idx].schedule_id])
    /\ tasks' = tasks \o ScheduledJobs(items[idx], clock)
    /\ dispatched' = [dispatched EXCEPT ![items[idx].schedule_id] =
                          @ + Len(ScheduledJobs(items[idx], clock))]
    /\ job_ids' = job_ids \o [k \in 1..Len(ScheduledJobs(items[idx], clock)) |->
                                  ScheduledJobs(items[idx], clock)[k].job.job_id]
    /\ idx' = idx + 1
    /\ UNCHANGED <<clock, schedules, next_run, pc, now, items, error,
                   adds, last_add, added_at, last_run, at_start, failures,
                   returned, registry>>

\* now >= due: _run_scheduled_jobs builds the jobs and awaits gather
Dispatch ==
    /\ pc = "loop"
    /\ idx <= Len(items)
    /\ ~Skipped(items[idx])
    /\ items[idx].schedule_id \in DOMAIN next_run
    /\ IsDue(now, next_run[items[idx].schedule_id])
    /\ tasks' = ScheduledJobs(items[idx], clock)
    /\ dispatched' = [dispatched EXCEPT ![items[idx].schedule_id] =
                          @ + Len(ScheduledJobs(items[idx], clock))]
    /\ job_ids' = job_ids \o [k \in 1..Len(ScheduledJobs(items[idx], clock)) |->
                                  ScheduledJobs(items[idx], clock)[k].job.job_id]
    /\ pc' = "gather"
    /\ UNCHANGED <<clock, schedules, next_run, now, items, idx, error,
                   adds, last_add, added_at, last_run, at_start, failures,
                   returned, registry>>

\* ------------------------------------------------- execute_training_job
\* what the stage at task.pc leaves in the task when it returns
StageOutput(task, t) ==
    CASE task.pc = "generate" ->
           [task EXCEPT !.script_path = GenerateUnityCode(task.job.asset_spec)]
      [] task.pc = "build" ->
           [task EXCEPT !.build_path =
               BuildUnityEnvironment(task.job.asset_spec, task.script_path)]
      [] task.pc = "train" ->
           [task EXCEPT !.model_path =
               TrainWithMlagents(task.job.asset_spec, task.build_path)]
      [] task.pc = "register" ->
           [task EXCEPT !.vertex_resource =
               RegisterModelInVertexAi(task.job, task.model_path, t)]

\* return TrainingResult(job_id=..., status="success", ...)
SuccessResult(task) ==
    TrainingResult(task.job.job_id, "success", task.model_path,
                   task.vertex_resource, None)

\* a failed result that reports what the stages before the failure produced
FailedResultWithArtifacts(task, exc) ==
    TrainingResult(task.job.job_id, "failed", task.model_path,
                   task.vertex_resource, ErrorText(exc))

\* return TrainingResult(job_id=job.job_id, status="failed", error=str(exc))
FailedResult(task, exc) ==
    TrainingResult(task.job.job_id, "failed", None, None, ErrorText(exc))

\* the stage at task.pc returns and the next statement is reached
AfterStage(task, t) ==
    LET out == [StageOutput(task, t) EXCEPT !.pc = StageAfter(task.pc)]
    IN  IF out.pc = "done" THEN [out EXCEPT !.result = SuccessResult(out)] ELSE out

\* a handler that runs the failed stage again
AfterFailureRetries(task, exc) == [task EXCEPT !.exc = exc]

\* a handler that logs and re-raises
AfterFailureReraises(task, exc) == [task EXCEPT !.pc = "raised", !.exc = exc]

\* the stage at task.pc raises exc: the except clause returns the failed
\* result, or the exception leaves the coroutine
AfterFailure(task, exc) ==
    IF CaughtByExecute(exc)
    THEN [task EXCEPT !.pc = "done", !.exc = exc, !.result = FailedResult(task, exc)]
    ELSE [task EXCEPT !.pc = "raised", !.exc = exc]

Running(task) == task.pc \notin {"done", "raised"}

\* the coroutines in tasks are being awaited: by asyncio.gather in
\* _run_scheduled_jobs, or by a caller that runs execute_training_job itself
Awaited == pc \in {"gather", "direct"}

StageSucceeds(k) ==
    /\ Awaited
    /\ k \in 1..Len(tasks)
    /\ Running(tasks[k])
    /\ tasks' = [tasks EXCEPT ![k] = AfterStage(tasks[k], clock)]
    /\ registry' = IF tasks[k].pc = "register"
                   THEN RegistryWrite(registry)
                   ELSE registry
    /\ UNCHANGED <<clock, schedules, next_run, pc, now, items, idx, error,
                   adds, last_add, added_at, last_run, dispatched, at_start, failures,
                   returned, job_ids>>

StageFails(k, exc) ==
    /\ Awaited
    /\ k \in 1..Len(tasks)
    /\ Running(tasks[k])
    /\ exc \in StageErrors(tasks[k].pc)
    /\ tasks' = [tasks EXCEPT ![k] = AfterFailure(tasks[k], exc)]
    /\ UNCHANGED <<clock, schedules, next_run, pc, now, items, idx, error,
                   adds, last_add, added_at, last_run, dispatched, at_start, failures,
                   returned, job_ids, registry>>

\* a wait that returns as soon as one task has returned
GatherReturnsFirstCompleted ==
    /\ pc = "gather"
    /\ \E k \in 1..Len(tasks) : tasks[k].pc = "done"
    /\ CroniterAccepts(items[idx].cron_expression)
    /\ tasks' = <<>>
    /\ failures' = failures + Cardinality(
           {k \in 1..Len(tasks) : tasks[k].result.status = "failed"})
    /\ returned' = returned
    /\ next_run' = NextRunSet(next_run, items[idx].schedule_id,
                              GetNext(items[idx].cron_expression, now))
    /\ last_run' = [last_run EXCEPT ![items[idx].schedule_id] = now]
    /\ idx' = idx + 1
    /\ pc' = "loop"
    /\ UNCHANGED <<clock, schedules, now, items, adds, last_add, error,
                   added_at, dispatched, at_start, job_ids, registry>>

\* await asyncio.gather(*tasks) returns once every task has returned, and
\* raises the first exception of a task at once; the list of results is
\* dropped; then _next_run is advanced from the tick's now, unless croniter
\* rejects the expression
GatherReturns ==
    /\ pc = "gather"
    /\ \/ \E k \in 1..Len(tasks) : tasks[k].pc = "raised"
       \/ \A k \in 1..Len(tasks) : tasks[k].pc = "done"
    /\ LET schedule == items[idx]
           raised == {k \in 1..Len(tasks) : tasks[k].pc = "raised"}
       IN  IF raised # {}
           THEN /\ pc' = "crashed"
                /\ error' \in {tasks[k].exc.class : k \in raised}
                /\ UNCHANGED <<next_run, last_run, idx, tasks, failures, returned>>
           ELSE /\ tasks' = <<>>
                /\ returned' = returned \o RunScheduledJobs(
                       [k \in 1..Len(tasks) |-> tasks[k].result])
                /\ failures' = failures + Cardinality(
                       {k \in 1..Len(tasks) : tasks[k].result.status = "failed"})
                /\ IF ~CroniterAccepts(schedule.cron_expression)
                   THEN /\ pc' = "crashed"
                        /\ error' = "CroniterBadCronError"
                        /\ UNCHANGED <<next_run, last_run, idx>>
                   ELSE /\ next_run' = NextRunSet(next_run, schedule.schedule_id,
                                            GetNext(schedule.cron_expression, now))
                        /\ last_run' = [last_run EXCEPT ![schedule.schedule_id] = now]
                        /\ idx' = idx + 1
                        /\ pc' = "loop"
                        /\ UNCHANGED error
    /\ UNCHANGED <<clock, schedules, now, items, adds, last_add,
                   added_at, dispatched, at_start, job_ids, registry>>

\* the for loop is exhausted: await asyncio.sleep(poll_seconds)
TickEnd ==
    /\ pc = "loop"
    /\ idx > Len(items)
    /\ pc' = "idle"
    /\ UNCHANGED <<clock, schedules, next_run, now, items, idx, tasks, error,
                   adds, last_add, added_at, last_run, dispatched, at_start, failures,
                   returned, job_ids, registry>>

Next ==
    \/ AdvanceClock
    \/ \E schedule \in ScheduleInputs : AddSchedule(schedule)
    \/ TickStart
    \/ SkipDisabled
    \/ DueLookupFails
    \/ NotDue
    \/ Dispatch
    \/ \E k \in 1..Len(tasks) : StageSucceeds(k)
    \/ \E k \in 1..Len(tasks) : \E exc \in StageErrors(tasks[k].pc) : StageFails(k, exc)
    \/ GatherReturns
    \/ TickEnd

Spec == Init /\ [][Next]_vars

\* ------------------------------------------------------------- fairness
\* the event loop runs every coroutine that is ready: run_forever takes its
\* next step when it can (asyncio.sleep returns, the for loop goes on, a
\* gather whose tasks have returned is resumed), and every job that has not
\* returned takes its next step (each stage terminates).  Nothing is
\* assumed of the clock or of the callers of add_schedule.
Fairness ==
    /\ WF_vars(TickStart)
    /\ WF_vars(SkipDisabled)
    /\ WF_vars(DueLookupFails)
    /\ WF_vars(NotDue)
    /\ WF_vars(Dispatch)
    /\ WF_vars(\E k \in 1..Len(tasks) :
                  \/ StageSucceeds(k)
                  \/ \E exc \in StageErrors(tasks[k].pc) : StageFails(k, exc))
    /\ WF_vars(GatherReturns)
    /\ WF_vars(TickEnd)

SpecLive == Init /\ [][Next]_vars /\ Fairness

\* ------------------------------------------------------- cancellation
\* asyncio.CancelledError derives from BaseException
CancelledError == Exception("CancelledError", None)

\* where a coroutine of execute_training_job can be suspended: before its
\* first step, and in the subprocess awaits of the build and train stages
\* (generate and register have no await that yields)
SuspensionPoints == {"generate", "build", "train"}

\* the task of run_forever is cancelled while it sleeps or while it awaits
\* the gather of a schedule: the cancellation of a gather is passed on to
\* every task of it that has not returned, where CancelledError is raised
\* at the await the task is suspended in, and then leaves run_forever
CancelRunForever ==
    /\ pc \in {"idle", "gather"}
    /\ \A k \in 1..Len(tasks) :
          Running(tasks[k]) => tasks[k].pc \in SuspensionPoints
    /\ tasks' = [k \in 1..Len(tasks) |->
                    IF Running(tasks[k])
                    THEN AfterFailure(tasks[k], CancelledError)
                    ELSE tasks[k]]
    /\ pc' = "cancelled"
    /\ error' = CancelledError.class
    /\ UNCHANGED <<clock, schedules, next_run, now, items, idx, adds, last_add,
                   added_at, last_run, dispatched, at_start, failures,
                   returned, job_ids, registry>>

NextCancel ==
    \/ Next
    \/ CancelRunForever

SpecCancel == Init /\ [][NextCancel]_vars

\* ------------------------------------------- jobs submitted by a caller
\* execute_training_job called outside the scheduler, as the unit test does
\* with job_id "job-1": two calls in flight, each with a job of the caller
DirectJobIds == {"job-1", "job-2"}

DirectJobs ==
    {TrainingJob(<<id>>, spec, RLTrainingConfig) :
        id \in DirectJobIds, spec \in {AgentA, AgentB, AgentC}}

InitDirect ==
    /\ clock = 0
    /\ schedules = <<>>
    /\ next_run = <<>>
    /\ pc = "direct"
    /\ now = 0
    /\ items = <<>>
    /\ idx = 1
    /\ tasks \in {<<NewTask(j1), NewTask(j2)>> : j1, j2 \in DirectJobs}
    /\ error = "none"
    /\ adds = 0
    /\ last_add = [schedule_id |-> "none", cron_expression |-> "none", raised |-> FALSE]
    /\ added_at = [id \in ScheduleIds |-> Never]
    /\ last_run = [id \in ScheduleIds |-> Never]
    /\ dispatched = [id \in ScheduleIds |-> 0]
    /\ at_start = [next_run |-> <<>>, last_run |-> [id \in ScheduleIds |-> Never]]
    /\ failures = 0
    /\ returned = <<>>
    /\ job_ids = <<>>
    /\ registry = 0

NextDirect ==
    \/ AdvanceClock
    \/ \E k \in 1..Len(tasks) : StageSucceeds(k)
    \/ \E k \in 1..Len(tasks) : \E exc \in StageErrors(tasks[k].pc) : StageFails(k, exc)

SpecDirect == InitDirect /\ [][NextDirect]_vars

\* ------------------------------------------------------------ the claims
Tasks == {tasks[k] : k \in 1..Len(tasks)}

\* the outputs of the four stages of a task, in stage order
Outputs(task) ==
    <<task.script_path, task.build_path, task.model_path, task.vertex_resource>>

StageIndex(stage) == CHOOSE j \in 1..Len(Stages) : Stages[j] = stage

\* the stage whose failure a task holds
FailedStage(task) ==
    CHOOSE j \in 1..Len(Stages) : task.exc \in StageErrors(Stages[j])

Failed(task) == task.exc # NoException

\* C1: execute_training_job never raises to its caller.  A task in which a
\* stage failed has returned a result with status failed, the job's job_id
\* and the text of the exception; a task that returned with no stage failed
\* holds a success result with the job's job_id, the trained model path and
\* the registry resource.
C1_ExecuteNeverRaises ==
    \A t \in Tasks :
        /\ t.pc # "raised"
        /\ Failed(t) =>
              /\ t.pc = "done"
              /\ t.result = TrainingResult(t.job.job_id, "failed", None, None,
                                           t.exc.message)
              /\ t.result.error # None
        /\ (t.pc = "done" /\ ~Failed(t)) =>
              /\ t.result.job_id = t.job.job_id
              /\ t.result.status = "success"
              /\ t.result.trained_model_path = t.model_path
              /\ t.result.trained_model_path # None
              /\ t.result.vertex_model_resource = t.vertex_resource
              /\ t.result.vertex_model_resource # None
              /\ t.result.error = None
        /\ t.pc # "done" => t.result = NoResult

\* one gather holds a task that returned failed and one that returned success
C1_Witness ==
    \E t1, t2 \in Tasks :
        /\ t1.pc = "done" /\ t1.result.status = "failed"
        /\ t1.exc.class = "OSError"
        /\ t2.pc = "done" /\ t2.result.status = "success"

\* C2: within one job the stages run in the order generate, build, train,
\* register: the stage a task is at has the outputs of all earlier stages
\* and of no later one, whatever the other tasks of the gather have done.
C2_StagesInOrder ==
    \A t \in Tasks :
        /\ \A j \in 2..Len(Stages) :
              Outputs(t)[j] # None => Outputs(t)[j - 1] # None
        /\ Running(t) =>
              \A j \in 1..Len(Stages) :
                  (Outputs(t)[j] # None) <=> (j < StageIndex(t.pc))
        /\ (t.pc = "done" /\ ~Failed(t)) =>
              \A j \in 1..Len(Stages) : Outputs(t)[j] # None

\* two tasks of one gather at different stages: one about to register while
\* its sibling has not generated yet
C2_Witness ==
    \E t1, t2 \in Tasks :
        /\ t1.pc = "register" /\ t1.model_path # None
        /\ t2.pc = "generate"

\* C3: when a stage of a job fails, no further stage of that job is started
\* (no later stage, no second run of the failed one): the task has returned,
\* the failed stage and every later stage left no output, and the result is
\* the failure payload with the text of that stage's exception.
C3_FailureAbortsJob ==
    \A t \in Tasks :
        Failed(t) =>
            /\ t.pc = "done"
            /\ ~Running(t)
            /\ \A j \in FailedStage(t)..Len(Stages) : Outputs(t)[j] = None
            /\ t.result.status = "failed"
            /\ t.result.error = ErrorText(t.exc)

\* a task whose build stage failed after generate succeeded
C3_Witness ==
    \E t \in Tasks :
        /\ Failed(t) /\ FailedStage(t) = 2
        /\ t.script_path # None /\ t.build_path = None
        /\ t.pc = "done"

\* C4: a failure of a stage or job does not abort the tick.  No exception
\* of a stage leaves a task or run_forever, and run_forever moves past a
\* gather only when every task of it has returned.
C4_FailureStaysInJob ==
    /\ error \notin ExceptionClasses
    /\ \A t \in Tasks : t.pc # "raised"
    /\ pc # "gather" => tasks = <<>>
    /\ failures <= dispatched["nightly"] + dispatched["weekly"]

\* the second schedule of a tick has run its jobs to success after a job of
\* the first schedule failed in the same tick
C4_Witness ==
    /\ pc = "gather"
    /\ idx = 2
    /\ failures >= 1
    /\ tasks # <<>>
    /\ \A t \in Tasks : t.pc = "done" /\ t.result.status = "success"

\* C5: a schedule with enabled = false is never due: no tick dispatches a
\* job for it, whatever now and whatever its entry in _next_run.
C5_DisabledNeverDispatched ==
    /\ \A i \in 1..Len(items) :
          ~items[i].enabled => dispatched[items[i].schedule_id] = 0
    /\ pc = "gather" => items[idx].enabled

\* the loop has passed over a disabled schedule whose next run time was
\* reached
C5_Witness ==
    /\ pc = "loop"
    /\ idx > 1
    /\ ~items[idx - 1].enabled
    /\ items[idx - 1].schedule_id \in DOMAIN next_run
    /\ now >= next_run[items[idx - 1].schedule_id]
    /\ dispatched[items[idx - 1].schedule_id] = 0

\* ------------------------------------------------- due times, as claimed
\* the first fire time of an accepted expression strictly after start, by
\* its definition: the least multiple of the period above start
FirstFireAfter(expr, start) ==
    CHOOSE t \in (start + 1)..(start + CronPeriod(expr)) : t % CronPeriod(expr) = 0

\* the loop of the tick in progress has decided about items[i]
Decided(i) ==
    /\ pc \in {"loop", "gather"}
    /\ i < idx \/ (i = idx /\ pc = "gather")

\* the tick has dispatched jobs for items[i]
Fired(i) == dispatched[items[i].schedule_id] > 0

\* the tick is over: run_forever sleeps, or an exception has left it
Concluded == pc \in {"idle", "crashed"}

\* items[i] was enabled and its next run time reached when the tick began
DueAtStart(i) ==
    /\ items[i].enabled
    /\ items[i].schedule_id \in DOMAIN at_start.next_run
    /\ now >= at_start.next_run[items[i].schedule_id]

\* items[i] is enabled, croniter accepted its expression in add_schedule and
\* it has not fired since
NeverFired(i) ==
    /\ items[i].enabled
    /\ CroniterAccepts(items[i].cron_expression)
    /\ at_start.last_run[items[i].schedule_id] = Never

\* C6 as claimed: an enabled schedule that has never fired is due for any
\* now, so the tick that reaches it fires it (stated for the schedules
\* whose add_schedule call returned).
C6_NeverFiredAlwaysDue ==
    \A i \in 1..Len(items) : (Decided(i) /\ NeverFired(i)) => Fired(i)

\* C6 as amended: an enabled schedule that has never fired is due only from
\* the first fire time of its expression strictly after its add_schedule
\* call: the tick that reaches it fires it iff now is at or past that time.
C6_NeverFiredDueFromFirstFire ==
    \A i \in 1..Len(items) :
        (Decided(i) /\ NeverFired(i)) =>
            (Fired(i) <=>
                now >= FirstFireAfter(items[i].cron_expression,
                                      added_at[items[i].schedule_id]))

\* one tick fires a never fired schedule whose first fire time is reached
\* and passes over another never fired schedule whose first fire time lies
\* ahead
C6_Witness ==
    \E i, j \in 1..Len(items) :
        /\ Decided(i) /\ NeverFired(i) /\ Fired(i)
        /\ Decided(j) /\ NeverFired(j) /\ ~Fired(j)
        /\ now < FirstFireAfter(items[j].cron_expression,
                                added_at[items[j].schedule_id])

\* C7: for an enabled schedule that has fired before, a tick at time now
\* fires it if and only if the first fire time strictly after its last
\* firing is at or before now.
C7_FiresIffNextFireReached ==
    Concluded =>
        \A i \in 1..Len(items) :
            (items[i].enabled /\ at_start.last_run[items[i].schedule_id] # Never) =>
                (Fired(i) <=>
                    FirstFireAfter(items[i].cron_expression,
                                   at_start.last_run[items[i].schedule_id]) <= now)

\* C8: the expression "@every 1h" is accepted by add_schedule.
C8_EveryIntervalAccepted ==
    last_add.cron_expression = EveryHour =>
        /\ ~last_add.raised
        /\ last_add.schedule_id \in DOMAIN next_run

\* C9: in every tick each due schedule has exactly len(asset_specs) jobs
\* dispatched and every schedule that is not due has none.
C9_JobsPerDueSchedule ==
    Concluded =>
        \A i \in 1..Len(items) :
            dispatched[items[i].schedule_id] =
                IF DueAtStart(i) THEN Len(items[i].asset_specs) ELSE 0

\* C10: after a schedule has fired in a tick (its jobs were dispatched and
\* gathered), its last-run marker is the now of that tick and its next run
\* time is the first fire time after that now.
C10_MarkerIsTickNow ==
    \A i \in 1..Len(items) :
        (/\ pc \in {"loop", "gather", "crashed"}
         /\ Fired(i)
         /\ ~(pc = "gather" /\ i = idx)) =>
            /\ last_run[items[i].schedule_id] = now
            /\ items[i].schedule_id \in DOMAIN next_run
            /\ next_run[items[i].schedule_id] =
                  FirstFireAfter(items[i].cron_expression, now)

\* --------------------------------------------- results and job ids of a tick
\* the number of jobs the tick in progress has dispatched
DispatchedJobs == dispatched["nightly"] + dispatched["weekly"]

\* C11: a tick hands to its caller the list of the results of the jobs it
\* dispatched: one result per dispatched job, each with the id of its job,
\* and an empty list when no schedule was due.
C11_TickReturnsResults ==
    pc = "idle" =>
        /\ Len(returned) = DispatchedJobs
        /\ \A k \in 1..Len(returned) : returned[k].job_id = job_ids[k]

\* C12: the job ids built within one tick are pairwise distinct, also when
\* two schedules that share an asset fire in the same tick.
C12_JobIdsDistinct ==
    \A k1, k2 \in 1..Len(job_ids) : k1 # k2 => job_ids[k1] # job_ids[k2]

\* both schedules have fired in one tick at the same clock value, each with
\* a job for asset a1
C12_Witness ==
    /\ Len(job_ids) = 3
    /\ dispatched["nightly"] = 2 /\ dispatched["weekly"] = 1
    /\ \A k \in 1..Len(job_ids) : job_ids[k][3] = now
    /\ \E i, j \in 1..Len(items) :
          /\ i # j /\ Fired(i) /\ Fired(j)
          /\ items[i].asset_specs[1].asset_id = items[j].asset_specs[1].asset_id

\* C13: the id of a job of the scheduler is made of the schedule id, the
\* asset id of the job's spec and the epoch seconds of the tick's now, in
\* this order (so it starts with "{schedule_id}-{asset_id}-").
C13_JobIdNamesAsset ==
    pc = "gather" =>
        \A t \in Tasks :
            t.job.job_id = <<items[idx].schedule_id, t.job.asset_spec.asset_id, now>>

\* C14: two jobs submitted independently with the same job_id get distinct
\* registry resources from the register stage, also when they register at
\* the same time.
C14_RegistryIdsDistinct ==
    \A k1, k2 \in 1..Len(tasks) :
        (/\ k1 # k2
         /\ tasks[k1].job.job_id = tasks[k2].job.job_id
         /\ tasks[k1].vertex_resource # None
         /\ tasks[k2].vertex_resource # None) =>
            tasks[k1].vertex_resource # tasks[k2].vertex_resource

\* ------------------------------------------------ concurrency of a tick
\* C15 as claimed: when two schedules are due in the same tick, the due
\* check and the dispatch of one do not wait for the jobs of the other:
\* while jobs of a schedule are still running, every schedule that was due
\* when the tick began has its jobs dispatched.
C15_SchedulesIndependent ==
    (pc = "gather" /\ \E t \in Tasks : Running(t)) =>
        \A i \in 1..Len(items) : DueAtStart(i) => Fired(i)

\* C15 as amended: the schedules of a tick are evaluated one after another
\* in registration order.  The jobs in flight all belong to the schedule
\* the loop is at, no later schedule is checked or dispatched before they
\* have all returned, and whether a schedule the loop has decided about
\* fired depends on its own due time alone, whatever jobs failed before.
C15_SchedulesInTurn ==
    /\ pc = "loop" => tasks = <<>>
    /\ pc = "gather" =>
          /\ \A t \in Tasks : t.job.job_id[1] = items[idx].schedule_id
          /\ \A i \in (idx + 1)..Len(items) : ~Fired(i)
    /\ \A i \in 1..Len(items) : Decided(i) => (Fired(i) <=> DueAtStart(i))

\* two schedules were due when the tick began: the jobs of the first, one
\* of them failed, have returned, the jobs of the second are running
C15_Witness ==
    /\ pc = "gather"
    /\ idx = 2
    /\ DueAtStart(1) /\ DueAtStart(2)
    /\ Fired(1) /\ Fired(2)
    /\ failures >= 1
    /\ \E t \in Tasks : Running(t)

\* a step of the scheduler as fan-out and barrier-join allow it
FanOutThenBarrierStep ==
    /\ (pc = "loop" /\ pc' = "gather") =>
          /\ Len(tasks') = Len(items[idx].asset_specs)
          /\ \A k \in 1..Len(tasks') : tasks'[k].pc = "generate"
    /\ pc = "gather" =>
          \/ /\ pc' = "gather"
             /\ UNCHANGED <<next_run, last_run, idx>>
          \/ \A k \in 1..Len(tasks) : tasks[k].pc = "done"
    /\ (pc # "idle" /\ pc' = "idle") => tasks = <<>>

\* C16: fan-out, then barrier-join.  The step that fires a schedule creates
\* one task per asset spec, all of them not yet started; every task that has
\* not returned can take its next step whatever its siblings have done;
\* while the gather is awaited neither the schedule's markers nor the loop
\* position change, and the step that leaves the gather (and so every step
\* that ends the tick) is taken only when every task has returned.
C16_FanOutThenBarrier ==
    /\ [](pc = "gather" =>
             \A k \in 1..Len(tasks) : Running(tasks[k]) => ENABLED StageSucceeds(k))
    /\ [][FanOutThenBarrierStep]_vars

\* both jobs of a schedule have returned, the one dispatched second before
\* its sibling had started its second stage, and the markers of the
\* schedule are still those of the start of the tick
C16_Witness ==
    /\ pc = "gather"
    /\ Len(tasks) = 2
    /\ \A t \in Tasks : t.pc = "done"
    /\ tasks[1].result.status = "success"
    /\ tasks[2].result.status = "failed"
    /\ next_run[items[idx].schedule_id] = at_start.next_run[items[idx].schedule_id]
    /\ last_run[items[idx].schedule_id] = at_start.last_run[items[idx].schedule_id]

\* C17: the cancellation of run_forever takes effect at a tick boundary
\* only: when the loop has stopped, no job was interrupted (every task has
\* returned a result) and the schedule whose jobs were in flight has its
\* marker advanced to the tick's now.
C17_CancelAtTickBoundary ==
    pc = "cancelled" =>
        /\ \A t \in Tasks : t.pc = "done" /\ t.result # NoResult
        /\ tasks # <<>> =>
              /\ last_run[items[idx].schedule_id] = now
              /\ next_run[items[idx].schedule_id] > now

\* ------------------------------------------------- configuration errors
\* C18: a configuration error in the due-time evaluation of a schedule (an
\* expression croniter cannot parse, a schedule with no entry in _next_run)
\* does not stop the loop: no such error ever leaves run_forever.
C18_ConfigErrorContained ==
    /\ error \notin {"KeyError", "CroniterBadCronError"}
    /\ pc # "crashed"

\* C19: add_schedule rejects an expression croniter cannot parse: the call
\* raises and leaves the schedules and the next run times as they were.
C19_InvalidExpressionRejected ==
    [][(adds' = adds + 1 /\ ~CroniterAccepts(last_add'.cron_expression)) =>
          /\ last_add'.raised
          /\ schedules' = schedules
          /\ next_run' = next_run]_vars

\* ------------------------------------------------------------ the marker
\* the expression registered under id, or None
ExpressionOf(d, id) ==
    IF \E i \in 1..Len(d) : d[i].schedule_id = id
    THEN d[CHOOSE i \in 1..Len(d) : d[i].schedule_id = id].cron_expression
    ELSE None

Written(task) ==
    UNION {StageWrites(task.job, Stages[j]) :
              j \in {n \in 1..Len(Stages) : Outputs(task)[n] # None}}

\* tasks k1 and k2 have both returned from the stage
BothWrote(k1, k2, stage) ==
    /\ Outputs(tasks[k1])[StageIndex(stage)] # None
    /\ Outputs(tasks[k2])[StageIndex(stage)] # None

\* the paths the stage writes for the job of k1 and for the job of k2
SharedWrites(k1, k2, stage) ==
    StageWrites(tasks[k1].job, stage) \cap StageWrites(tasks[k2].job, stage)

C22_ModelPathNamesJob ==
    \A k1, k2 \in 1..Len(tasks) :
        (/\ tasks[k1].job.job_id # tasks[k2].job.job_id
         /\ tasks[k1].job.asset_spec = tasks[k2].job.asset_spec
         /\ tasks[k1].model_path # None
         /\ tasks[k2].model_path # None) =>
            tasks[k1].model_path # tasks[k2].model_path

\* ------------------------------------------------------------- results
\* C23: every job result has exactly one of the success payload and the
\* failure payload: a success result has the trained model path and the
\* registry resource and no error, a failed result has an error and neither
\* artifact, no other status occurs, and a task has a result exactly when
\* it has returned.
C23_ExactlyOnePayload ==
    \A t \in Tasks :
        /\ (t.pc = "done") <=> (t.result # NoResult)
        /\ t.result # NoResult =>
              /\ t.result.status \in {"success", "failed"}
              /\ t.result.status = "success" =>
                    /\ t.result.trained_model_path # None
                    /\ t.result.vertex_model_resource # None
                    /\ t.result.error = None
              /\ t.result.status = "failed" =>
                    /\ t.result.error # None
                    /\ t.result.trained_model_path = None
                    /\ t.result.vertex_model_resource = None

\* a job whose register stage failed after its model was trained has
\* returned a failed result, its sibling a success result
C23_Witness ==
    \E t1, t2 \in Tasks :
        /\ t1.result.status = "failed"
        /\ t1.exc.class = "JSONDecodeError"
        /\ t1.model_path # None
        /\ t1.result.trained_model_path = None
        /\ t2.result.status = "success"
        /\ t2.result.error = None

\* ------------------------------------------------------------- liveness
\* the schedule registered at position i is enabled and its next run time
\* has been reached
DueReached(i) ==
    /\ schedules[i].enabled
    /\ schedules[i].schedule_id \in DOMAIN next_run
    /\ clock >= next_run[schedules[i].schedule_id]

\* the schedule registered under id is enabled and its next run time has
\* been reached
Due(id) ==
    \E i \in 1..Len(schedules) : schedules[i].schedule_id = id /\ DueReached(i)

\* the tick in progress has dispatched the jobs of the schedule id
Firing(id) == pc = "gather" /\ items[idx].schedule_id = id

\* C24: with jobs that terminate and no cancellation, each tick terminates
\* and is followed by another tick, so an enabled schedule whose due time
\* has been reached is eventually fired (unless it is re-registered in the
\* meantime so that it is no longer due), and so again after each later due
\* time.
C24_DueScheduleEventuallyFired ==
    \A id \in ScheduleIds : Due(id) ~> (Firing(id) \/ ~Due(id))

\* ------------------------------------------------------------- registry
\* the tasks whose register stage has returned
Registered == {k \in 1..Len(tasks) : tasks[k].vertex_resource # None}

\* C25: no registry record is lost: whatever the interleaving of the jobs
\* that run concurrently, the registry file holds one record for every
\* register stage that has returned, and none for a job whose register
\* stage has not returned or has failed.
C25_NoRecordLost == registry = Cardinality(Registered)

\* two jobs with the same job id for the same asset, run concurrently, have
\* both registered at the same clock value: the file holds two records
C25_Witness ==
    /\ Len(tasks) = 2
    /\ tasks[1].job = tasks[2].job
    /\ Registered = {1, 2}
    /\ tasks[1].vertex_resource = tasks[2].vertex_resource
    /\ registry = 2

====
